---- MODULE Spec2Model ----
(***************************************************************************)
(* State-machine model of the Google sign-in session lifecycle:            *)
(*   - src/src/utils/googleOAuth.ts        loadGoogleOAuthScript           *)
(*   - src/src/components/auth/loginModal.tsx  LoginModal effects and      *)
(*                                         handleGoogleCallback            *)
(* The redux slice (loginStart/loginSuccess/loginFailure), getErrorMessage *)
(* and authApi are not part of the available sources; the reducers and     *)
(* getErrorMessage are modelled from the specification text, the two       *)
(* authApi calls are external collaborators whose responses are inputs.    *)
(*                                                                         *)
(* JavaScript is single threaded: every action below is one macrotask      *)
(* (an event handler or a promise continuation run to its next await).     *)
(***************************************************************************)
EXTENDS Integers, Sequences, FiniteSets, TLC

\* ------------------------------------------------------------------ bounds
MaxAttempts == 2          \* credential events delivered in one run
MaxLoads    == 3          \* calls of loadGoogleOAuthScript in one run
MaxInits    == 2          \* runs of the bridge effect that reach initialize

\* ------------------------------------------------------- program constants
AccessExpiryDays  == 1    \* loginModal.tsx:69  expires: 1
RefreshExpiryDays == 7    \* loginModal.tsx:78  expires: 7

Attempts == 1..MaxAttempts
Loads    == 1..MaxLoads

\* Strings that carry an identity are modelled as tuples <<kind, n>>; the
\* empty string (falsy in JavaScript) is the empty tuple.
Empty         == <<>>
CredOf(a)     == <<"cred", a>>
AccessOf(a)   == <<"acc", a>>
RefreshOf(a)  == <<"ref", a>>

\* null / undefined object references are the empty sequence, a present
\* object r is <<r>>.
Null          == <<>>
Some(r)       == <<r>>
IsNull(x)     == x = <<>>

NoError       == "null"

\* Error messages thrown inside handleGoogleCallback (lines 57, 121, 124).
MsgNoCredential   == "No credential received from Google"
MsgNoUserDetails  == "Failed to fetch user details"
MsgInvalidResp    == "Invalid response from server"
\* Messages surfaced by the collaborators (HTTP layer, observer callback).
MsgNetwork        == "Network Error"
MsgObserver       == "observer failed"
CollaboratorErrors == {MsgNetwork}

VARIABLES
    auth,        \* redux state.auth: [status, user, error]
    cookies,     \* js-cookie jar: [access_token, refresh_token], each Null or Some(cookie)
    httpToken,   \* token installed on the axios instance by authApi.setToken
    protocol,    \* window.location.protocol
    attempts,    \* one record per invocation of handleGoogleCallback
    started,     \* number of invocations of handleGoogleCallback so far
    publisher,   \* the invocation whose dispatch produced the current auth (0: none)
    scriptEl,    \* the <script src=gsi/client> element: "absent", "loading", "loaded", "errored"
    appended,    \* number of script elements appended to document.head
    apiPresent,  \* window.google && window.google.accounts
    loads,       \* one record per call of loadGoogleOAuthScript
    loadCalls,   \* number of calls of loadGoogleOAuthScript so far
    clientId,    \* GOOGLE_CLIENT_ID
    isOpen,      \* LoginModal prop isOpen
    isGoogleLoaded, \* LoginModal state isGoogleLoaded
    bridge,      \* google.accounts.id: [initialized, callbacks, initCalls, renderCalls]
    buttons,     \* number of rendered buttons inside googleButtonRef.current
    loadNotes    \* message.error notifications raised by initializeGoogleOAuth

vars == <<auth, cookies, httpToken, protocol, attempts, started, publisher,
          scriptEl, appended, apiPresent, loads, loadCalls, clientId,
          isOpen, isGoogleLoaded, bridge, buttons, loadNotes>>

loginVars  == <<auth, cookies, httpToken, attempts, started, publisher>>
loaderVars == <<scriptEl, appended, apiPresent, loads, loadCalls>>
modalVars  == <<isOpen, isGoogleLoaded, bridge, buttons, loadNotes>>
envVars    == <<protocol, clientId>>

\* ------------------------------------------------------------- AuthState
InitialAuth == [status |-> "idle", user |-> Null, error |-> NoError]

\* mutant of loginFailure: the published user is left in place
loginFailure_KeepsUser(s, msg) ==
    [s EXCEPT !.status = "failed", !.error = msg]

\* reducers of authSlice
loginStart(s) == [s EXCEPT !.status = "authenticating", !.error = NoError]

loginSuccess(s, payload) ==
    [status |-> "authenticated", user |-> Some(payload.user), error |-> NoError]

loginFailure(s, msg) ==
    [status |-> "failed", user |-> Null, error |-> msg]

\* utils/apiHandler getErrorMessage: the message of the thrown error
getErrorMessage(msg) == msg

\* ------------------------------------------------------------ TokenStore
EmptyJar == [access_token |-> Null, refresh_token |-> Null]

\* mutant of CookiesSet: the secure flag is never set
CookiesSet_NeverSecure(jar, name, value, days, who) ==
    [jar EXCEPT ![name] = Some([value    |-> value,
                                expires  |-> days,
                                path     |-> "/",
                                sameSite |-> "Lax",
                                secure   |-> FALSE,
                                writer   |-> who])]

\* Cookies.set(name, value, {path: "/", expires: days, sameSite: "Lax",
\*                          secure: window.location.protocol === "https:"})
\* writer is a history field: the invocation that wrote the entry.
CookiesSet(jar, name, value, days, who) ==
    [jar EXCEPT ![name] = Some([value    |-> value,
                                expires  |-> days,
                                path     |-> "/",
                                sameSite |-> "Lax",
                                secure   |-> (protocol = "https:"),
                                writer   |-> who])]

\* Cookies.get(name): the value of a stored entry, Empty when there is none
CookiesGet(jar, name) == IF IsNull(jar[name]) THEN Empty ELSE jar[name][1].value

\* mutant of PersistTokens: the access entry is not written
PersistTokens_RefreshOnly(jar, data, who) ==
    IF data.refreshToken # Empty
    THEN [jar EXCEPT !["refresh_token"] =
             Some([value    |-> data.refreshToken,
                   expires  |-> RefreshExpiryDays,
                   path     |-> "/",
                   sameSite |-> "Lax",
                   secure   |-> (protocol = "https:"),
                   writer   |-> who])]
    ELSE jar

\* lines 67-82: the access entry always, the refresh entry when one was returned
PersistTokens(jar, data, who) ==
    LET j1 == CookiesSet(jar, "access_token", data.accessToken, AccessExpiryDays, who)
    IN  IF data.refreshToken # Empty
        THEN CookiesSet(j1, "refresh_token", data.refreshToken, RefreshExpiryDays, who)
        ELSE j1

\* The browser drops an entry when its lifetime has elapsed.
AgeCookie(c) ==
    IF IsNull(c) THEN Null
    ELSE IF c[1].expires <= 1 THEN Null
    ELSE Some([c[1] EXCEPT !.expires = @ - 1])

\* ------------------------------------------------ exchange / profile inputs
NoData == [accessToken |-> Empty, refreshToken |-> Empty]

\* result of authApi.googleOAuthLogin: result, result.data, result.data.accessToken
\* and result.data.refreshToken may each be missing or empty.
ExchangeResults(a) ==
    {[present |-> FALSE, hasData |-> FALSE, data |-> NoData],
     [present |-> TRUE,  hasData |-> FALSE, data |-> NoData]}
    \cup {[present |-> TRUE, hasData |-> TRUE,
           data |-> [accessToken |-> acc, refreshToken |-> ref]] :
             acc \in {Empty, AccessOf(a)}, ref \in {Empty, RefreshOf(a)}}

\* mutant of ResponseValid: the access token itself is not tested
ResponseValid_TokenNotTested(result) ==
    result.present /\ result.hasData

\* line 64: result && result.data && result.data.accessToken
ResponseValid(result) ==
    result.present /\ result.hasData /\ result.data.accessToken # Empty

\* userDetails returned by authApi.getMe (role: number, possibly missing)
Roles == {Null, Some(0), Some(1)}
Profiles ==
    {[id |-> 7, email |-> "a@b.com", username |-> "alice", confirmed |-> TRUE,
      role |-> r] : r \in Roles}

\* line 101: userDetails.role || undefined
RoleId(role) == IF IsNull(role) \/ role[1] = 0 THEN Null ELSE role

\* lines 95-103: the payload of loginSuccess
SuccessPayload(userDetails) ==
    [user |-> [id        |-> userDetails.id,
               email     |-> userDetails.email,
               username  |-> userDetails.username,
               confirmed |-> userDetails.confirmed,
               role_id   |-> RoleId(userDetails.role)]]

\* onSuccess prop: not provided, returns normally, or throws
Observers == {"absent", "returns", "throws"}

\* ------------------------------------------------- handleGoogleCallback
NewAttempt ==
    [pc            |-> "unused",   \* "awaitExchange", "awaitProfile", "done"
     credential    |-> Empty,      \* response.credential
     exchange      |-> "none",     \* "threw", "returned": how line 60 completed
     response      |-> Null,       \* the value line 60 returned
     profile       |-> "none",     \* "threw", "empty", "returned": how line 89 completed
     details       |-> Null,       \* the userDetails line 89 returned
     event         |-> 0,          \* the credential event that invoked the callback
     inits         |-> 0,          \* calls of initialize before that event
     data          |-> NoData,     \* result.data of a valid exchange response
     exchangeArgs  |-> <<>>,       \* arguments of the calls of googleOAuthLogin
     profileCalls  |-> 0,          \* calls of getMe
     reqToken      |-> Empty,      \* axios token when getMe was issued
     reqCookie     |-> Empty,      \* access cookie when getMe was issued
     persisted     |-> FALSE,      \* this invocation wrote the TokenStore
     dispatched    |-> <<>>,       \* redux actions dispatched, in order
     result        |-> InitialAuth,\* auth as left by its last dispatch
     errorNotes    |-> <<>>,       \* message.error texts
     successNotes  |-> 0,          \* message.success calls
     observerCalls |-> 0]          \* onSuccess calls

InFlight(a) == attempts[a].pc \in {"awaitExchange", "awaitProfile"}
Finished(a) == attempts[a].pc = "done"

\* dispatch(action) by invocation a: the reducer's result becomes state.auth
Dispatched(att, name, s) ==
    [att EXCEPT !.dispatched = Append(@, name), !.result = s]

\* lines 126-131: catch (error) { dispatch(loginFailure(msg)); message.error(msg) }
\* applied to the auth state s and the invocation record att as they are
\* when the error is thrown.
CatchBlock(s, att, thrown) ==
    LET msg == getErrorMessage(thrown)
        s2  == loginFailure(s, msg)
    IN  [auth |-> s2,
         att  |-> [Dispatched(att, "loginFailure", s2) EXCEPT
                      !.pc = "done", !.errorNotes = Append(@, msg)]]

\* mutant of CredentialStep: a credential arriving in the Failed state is
\* turned down
CredentialStep_RefusedAfterFailure(s, cred) ==
    LET s1   == IF s.status = "failed" THEN s ELSE loginStart(s)
        att1 == Dispatched([NewAttempt EXCEPT !.credential = cred], "loginStart", s1)
    IN  IF cred = Empty \/ s.status = "failed"
        THEN CatchBlock(s1, att1, MsgNoCredential)
        ELSE [auth |-> s1,
              att  |-> [att1 EXCEPT !.pc = "awaitExchange",
                                    !.exchangeArgs = Append(@, cred)]]

\* mutant of CredentialStep: the exchange is called a second time with the
\* same credential
CredentialStep_ExchangeTwice(s, cred) ==
    LET s1   == loginStart(s)
        att1 == Dispatched([NewAttempt EXCEPT !.credential = cred], "loginStart", s1)
    IN  IF cred = Empty
        THEN CatchBlock(s1, att1, MsgNoCredential)
        ELSE [auth |-> s1,
              att  |-> [att1 EXCEPT !.pc = "awaitExchange",
                                    !.exchangeArgs = <<cred, cred>>]]

\* lines 47-60: the callback runs up to the first await
CredentialStep(s, cred) ==
    LET s1   == loginStart(s)
        att1 == Dispatched([NewAttempt EXCEPT !.credential = cred], "loginStart", s1)
    IN  IF cred = Empty
        THEN CatchBlock(s1, att1, MsgNoCredential)
        ELSE [auth |-> s1,
              att  |-> [att1 EXCEPT !.pc = "awaitExchange",
                                    !.exchangeArgs = Append(@, cred)]]

\* response.credential: empty, or the credential the provider issues for
\* this sign-in
Credentials == {Empty} \cup {CredOf(a) : a \in Attempts}

\* the number of credential events the provider has emitted
EventsSoFar == IF started = 0 THEN 0 ELSE attempts[started].event

\* state.auth after the first k registered callbacks have run for one event
RECURSIVE AuthAfterCallbacks(_, _, _)
AuthAfterCallbacks(s, cred, k) ==
    IF k = 0 THEN s
    ELSE AuthAfterCallbacks(CredentialStep(s, cred).auth, cred, k - 1)

\* The user signs in with the rendered button: the provider emits one
\* credential event and calls every registered callback with it, one after
\* the other (each runs to its first await).
CredentialEvent(cred) ==
    /\ isOpen /\ bridge.initialized /\ buttons > 0
    /\ started + bridge.callbacks <= MaxAttempts
    /\ cred \in {Empty, CredOf(EventsSoFar + 1)}
    /\ LET k   == bridge.callbacks
           new == (started + 1)..(started + k)
       IN  /\ auth' = AuthAfterCallbacks(auth, cred, k)
           /\ attempts' =
                [b \in Attempts |->
                    IF b \in new
                    THEN [CredentialStep(AuthAfterCallbacks(auth, cred, b - started - 1),
                                         cred).att
                            EXCEPT !.event = EventsSoFar + 1,
                                   !.inits = bridge.initCalls]
                    ELSE attempts[b]]
           /\ started' = started + k
           /\ publisher' = started + k
    /\ UNCHANGED <<cookies, httpToken>>
    /\ UNCHANGED <<loaderVars, modalVars, envVars>>

\* line 60 rejects: the await throws the collaborator's error
ExchangeThrows(a, msg) ==
    /\ attempts[a].pc = "awaitExchange"
    /\ LET r == CatchBlock(auth, [attempts[a] EXCEPT !.exchange = "threw"], msg)
       IN  /\ auth' = r.auth
           /\ attempts' = [attempts EXCEPT ![a] = r.att]
    /\ publisher' = a
    /\ UNCHANGED <<cookies, httpToken, started>>
    /\ UNCHANGED <<loaderVars, modalVars, envVars>>

\* line 64 false -> line 124
ExchangeInvalid(a, result) ==
    /\ attempts[a].pc = "awaitExchange"
    /\ ~ResponseValid(result)
    /\ LET r == CatchBlock(auth, [attempts[a] EXCEPT !.exchange = "returned",
                                                    !.response = Some(result)],
                           MsgInvalidResp)
       IN  /\ auth' = r.auth
           /\ attempts' = [attempts EXCEPT ![a] = r.att]
    /\ publisher' = a
    /\ UNCHANGED <<cookies, httpToken, started>>
    /\ UNCHANGED <<loaderVars, modalVars, envVars>>

\* mutant of PersistAndFetch: getMe is issued before the token is stored
\* and installed
PersistAndFetch_FetchFirst(jar, tok, att, data, a) ==
    [cookies   |-> PersistTokens(jar, data, a),
     httpToken |-> data.accessToken,
     att       |-> [att EXCEPT !.pc = "awaitProfile",
                               !.data = data,
                               !.persisted = TRUE,
                               !.profileCalls = @ + 1,
                               !.reqToken = tok,
                               !.reqCookie = CookiesGet(jar, "access_token")]]

\* mutant of PersistAndFetch: authApi.setToken is not called, getMe goes out
\* with the token the HTTP client already had
PersistAndFetch_TokenNotInstalled(jar, tok, att, data, a) ==
    LET jar1 == PersistTokens(jar, data, a)
    IN  [cookies   |-> jar1,
         httpToken |-> tok,
         att       |-> [att EXCEPT !.pc = "awaitProfile",
                                   !.data = data,
                                   !.persisted = TRUE,
                                   !.profileCalls = @ + 1,
                                   !.reqToken = tok,
                                   !.reqCookie = CookiesGet(jar1, "access_token")]]

\* lines 64-89 as a sequence of statements over the store and the axios
\* token: Cookies.set (twice), authApi.setToken, then authApi.getMe is issued
\* and captures what it is sent with.
PersistAndFetch(jar, tok, att, data, a) ==
    LET jar1 == PersistTokens(jar, data, a)
        tok1 == data.accessToken
    IN  [cookies   |-> jar1,
         httpToken |-> tok1,
         att       |-> [att EXCEPT !.pc = "awaitProfile",
                                   !.data = data,
                                   !.persisted = TRUE,
                                   !.profileCalls = @ + 1,
                                   !.reqToken = tok1,
                                   !.reqCookie = CookiesGet(jar1, "access_token")]]

ExchangeValid(a, result) ==
    /\ attempts[a].pc = "awaitExchange"
    /\ ResponseValid(result)
    /\ LET r == PersistAndFetch(cookies, httpToken,
                                [attempts[a] EXCEPT !.exchange = "returned",
                                                    !.response = Some(result)],
                                result.data, a)
       IN  /\ cookies' = r.cookies
           /\ httpToken' = r.httpToken
           /\ attempts' = [attempts EXCEPT ![a] = r.att]
    /\ UNCHANGED <<auth, started, publisher>>
    /\ UNCHANGED <<loaderVars, modalVars, envVars>>

\* line 89 rejects
ProfileThrows(a, msg) ==
    /\ attempts[a].pc = "awaitProfile"
    /\ LET r == CatchBlock(auth, [attempts[a] EXCEPT !.profile = "threw"], msg)
       IN  /\ auth' = r.auth
           /\ attempts' = [attempts EXCEPT ![a] = r.att]
    /\ publisher' = a
    /\ UNCHANGED <<cookies, httpToken, started>>
    /\ UNCHANGED <<loaderVars, modalVars, envVars>>

\* mutant of ProfileEmpty: the failure path also removes the stored tokens
ProfileEmpty_ClearsTokens(a) ==
    /\ attempts[a].pc = "awaitProfile"
    /\ LET r == CatchBlock(auth, [attempts[a] EXCEPT !.profile = "empty"],
                           MsgNoUserDetails)
       IN  /\ auth' = r.auth
           /\ attempts' = [attempts EXCEPT ![a] = r.att]
    /\ publisher' = a
    /\ cookies' = EmptyJar
    /\ UNCHANGED <<httpToken, started>>
    /\ UNCHANGED <<loaderVars, modalVars, envVars>>

\* line 92 false -> line 121
ProfileEmpty(a) ==
    /\ attempts[a].pc = "awaitProfile"
    /\ LET r == CatchBlock(auth, [attempts[a] EXCEPT !.profile = "empty"],
                           MsgNoUserDetails)
       IN  /\ auth' = r.auth
           /\ attempts' = [attempts EXCEPT ![a] = r.att]
    /\ publisher' = a
    /\ UNCHANGED <<cookies, httpToken, started>>
    /\ UNCHANGED <<loaderVars, modalVars, envVars>>

\* lines 92-119: dispatch(loginSuccess), message.success, onSuccess(); an
\* error thrown by onSuccess is caught by the same try block.  The timer of
\* line 114 only calls the caller's onClose and the router.
SuccessStep(s, att, userDetails, observer) ==
    LET s1   == loginSuccess(s, SuccessPayload(userDetails))
        att1 == [Dispatched(att, "loginSuccess", s1) EXCEPT
                    !.successNotes = @ + 1,
                    !.observerCalls = IF observer = "absent" THEN @ ELSE @ + 1]
    IN  IF observer = "throws"
        THEN CatchBlock(s1, att1, MsgObserver)
        ELSE [auth |-> s1, att |-> [att1 EXCEPT !.pc = "done"]]

ProfileOk(a, userDetails, observer) ==
    /\ attempts[a].pc = "awaitProfile"
    /\ LET r == SuccessStep(auth, [attempts[a] EXCEPT !.profile = "returned",
                                                    !.details = Some(userDetails)],
                            userDetails, observer)
       IN  /\ auth' = r.auth
           /\ attempts' = [attempts EXCEPT ![a] = r.att]
    /\ publisher' = a
    /\ UNCHANGED <<cookies, httpToken, started>>
    /\ UNCHANGED <<loaderVars, modalVars, envVars>>

\* One day of wall-clock time elapses.  Requests are answered or time out
\* within seconds, so no invocation is suspended across a day boundary.
DayPasses ==
    /\ \A a \in Attempts : ~InFlight(a)
    /\ \E n \in {"access_token", "refresh_token"} : ~IsNull(cookies[n])
    /\ cookies' = [n \in {"access_token", "refresh_token"} |-> AgeCookie(cookies[n])]
    /\ UNCHANGED <<auth, httpToken, attempts, started, publisher>>
    /\ UNCHANGED <<loaderVars, modalVars, envVars>>

\* ------------------------------------------------- loadGoogleOAuthScript
MsgScriptFailed == "Failed to load Google OAuth script"
MsgApiMissing   == "Google OAuth API not available after script load"

NewLoad == [role  |-> "none",     \* "immediate", "attached", "issuer"
            state |-> "unused",   \* "pending", "settling", "resolved", "rejected"
            error |-> NoError]

\* mutant of LoadExecutor: the existing script element is looked up before
\* the API is tested
LoadExecutor_ExistingFirst(api, el) ==
    IF el # "absent"
    THEN [load |-> [NewLoad EXCEPT !.role = "attached", !.state = "pending"],
          append |-> FALSE]
    ELSE IF api
    THEN [load |-> [NewLoad EXCEPT !.role = "immediate", !.state = "resolved"],
          append |-> FALSE]
    ELSE [load |-> [NewLoad EXCEPT !.role = "issuer", !.state = "pending"],
          append |-> TRUE]

\* mutant of LoadExecutor: no look-up of an existing script element
LoadExecutor_NoExistingCheck(api, el) ==
    IF api
    THEN [load |-> [NewLoad EXCEPT !.role = "immediate", !.state = "resolved"],
          append |-> FALSE]
    ELSE [load |-> [NewLoad EXCEPT !.role = "issuer", !.state = "pending"],
          append |-> TRUE]

\* lines 44-81: the promise executor, run synchronously by the call.
\* api: window.google && window.google.accounts; el: the state of the script
\* element document.querySelector finds ("absent" when it finds none).
LoadExecutor(api, el) ==
    IF api
    THEN [load |-> [NewLoad EXCEPT !.role = "immediate", !.state = "resolved"],
          append |-> FALSE]
    ELSE IF el # "absent"
    THEN [load |-> [NewLoad EXCEPT !.role = "attached", !.state = "pending"],
          append |-> FALSE]
    ELSE [load |-> [NewLoad EXCEPT !.role = "issuer", !.state = "pending"],
          append |-> TRUE]

\* lines 65-74 and 54: the script's load event runs script.onload (the issuer
\* starts its 100 ms timer) and the listeners added by attached callers.
OnLoadEvent(ld) ==
    IF ld.state # "pending" THEN ld
    ELSE IF ld.role = "issuer" THEN [ld EXCEPT !.state = "settling"]
    ELSE [ld EXCEPT !.state = "resolved"]

\* lines 76-78 and 55: the script's error event
OnErrorEvent(ld) ==
    IF ld.state # "pending" THEN ld
    ELSE [ld EXCEPT !.state = "rejected", !.error = MsgScriptFailed]

\* lines 67-73: the timer callback
OnSettleTimer(ld, api) ==
    IF api THEN [ld EXCEPT !.state = "resolved"]
    ELSE [ld EXCEPT !.state = "rejected", !.error = MsgApiMissing]

\* mutant of validateGoogleClientId: the placeholder value is accepted
validateGoogleClientId_PlaceholderAccepted(id) == id # ""

\* lines 90-96
validateGoogleClientId(id) == id # "" /\ id # "your_google_client_id_here"

ClientIds == {"", "your_google_client_id_here", "client-id.apps.googleusercontent.com"}

\* --------------------------------------------------- LoginModal effects
NewBridge == [initialized |-> FALSE, callbacks |-> 0, initCalls |-> 0, renderCalls |-> 0]

\* mutant of BridgeEffect: every initialize registers one more callback
BridgeEffect_AddsCallback(loaded, api, br, btn) ==
    IF loaded /\ api
    THEN [bridge  |-> [br EXCEPT !.initialized = TRUE,
                                 !.callbacks = @ + 1,
                                 !.initCalls = @ + 1,
                                 !.renderCalls = @ + 1],
          buttons |-> 0 + 1]
    ELSE [bridge |-> br, buttons |-> btn]

\* mutant of BridgeEffect: window.google.accounts is not tested
BridgeEffect_ApiNotTested(loaded, api, br, btn) ==
    IF loaded
    THEN [bridge  |-> [br EXCEPT !.initialized = TRUE,
                                 !.callbacks = 1,
                                 !.initCalls = @ + 1,
                                 !.renderCalls = @ + 1],
          buttons |-> 0 + 1]
    ELSE [bridge |-> br, buttons |-> btn]

\* mutant of BridgeEffect: the mount target is not emptied before rendering
BridgeEffect_TargetNotCleared(loaded, api, br, btn) ==
    IF loaded /\ api
    THEN [bridge  |-> [br EXCEPT !.initialized = TRUE,
                                 !.callbacks = 1,
                                 !.initCalls = @ + 1,
                                 !.renderCalls = @ + 1],
          buttons |-> btn + 1]
    ELSE [bridge |-> br, buttons |-> btn]

\* lines 168-186: the bridge effect.  googleButtonRef.current is set once the
\* modal has been opened, which every run with isGoogleLoaded follows.
\* initialize takes a GoogleIdConfig with one callback field and keeps that
\* configuration: the callback of the latest call is the registered one.
\* innerHTML = '' empties the mount target before renderButton adds one
\* button.
BridgeEffect(loaded, api, br, btn) ==
    IF loaded /\ api
    THEN [bridge  |-> [br EXCEPT !.initialized = TRUE,
                                 !.callbacks = 1,
                                 !.initCalls = @ + 1,
                                 !.renderCalls = @ + 1],
          buttons |-> 0 + 1]
    ELSE [bridge |-> br, buttons |-> btn]

\* lines 152-162: what follows await loadGoogleOAuthScript() for the calls
\* that settle in one step: setIsGoogleLoaded(true) for a resolved call,
\* message.error for a rejected one; the bridge effect re-runs when
\* isGoogleLoaded changes.
AfterLoads(old, new, api) ==
    LET resolvedNow == {i \in Loads : old[i].state # "resolved" /\ new[i].state = "resolved"}
        rejectedNow == {i \in Loads : old[i].state # "rejected" /\ new[i].state = "rejected"}
        loaded1     == isGoogleLoaded \/ resolvedNow # {}
        eff         == IF loaded1 # isGoogleLoaded
                       THEN BridgeEffect(loaded1, api, bridge, buttons)
                       ELSE [bridge |-> bridge, buttons |-> buttons]
    IN  /\ isGoogleLoaded' = loaded1
        /\ bridge' = eff.bridge
        /\ buttons' = eff.buttons
        /\ loadNotes' = loadNotes + Cardinality(rejectedNow)

\* lines 146-167: the script effect, run when isOpen or t changed
ScriptEffect(open) ==
    IF validateGoogleClientId(clientId) /\ open
    THEN /\ loadCalls < MaxLoads
         /\ LET i == loadCalls + 1
                r == LoadExecutor(apiPresent, scriptEl)
                new == [loads EXCEPT ![i] = r.load]
            IN  /\ loads' = new
                /\ loadCalls' = i
                /\ scriptEl' = IF r.append THEN "loading" ELSE scriptEl
                /\ appended' = IF r.append THEN appended + 1 ELSE appended
                /\ AfterLoads(loads, new, apiPresent)
         /\ UNCHANGED apiPresent
    ELSE UNCHANGED <<loaderVars, isGoogleLoaded, bridge, buttons, loadNotes>>

\* the parent opens the modal
OpenModal ==
    /\ ~isOpen
    /\ isOpen' = TRUE
    /\ ScriptEffect(TRUE)
    /\ UNCHANGED <<loginVars, envVars>>

\* the parent closes the modal (onCancel, or its onClose handler)
CloseModal ==
    /\ isOpen
    /\ isOpen' = FALSE
    /\ ScriptEffect(FALSE)
    /\ UNCHANGED <<loginVars, envVars>>

\* the parent re-renders with a new t: the script effect (deps [t, isOpen])
\* and, handleGoogleCallback being rebuilt, the bridge effect both run again
TranslatorChanged ==
    /\ isOpen /\ validateGoogleClientId(clientId)
    /\ loadCalls < MaxLoads
    /\ bridge.initCalls < MaxInits
    /\ LET i == loadCalls + 1
           r == LoadExecutor(apiPresent, scriptEl)
           new == [loads EXCEPT ![i] = r.load]
           resolvedNow == new[i].state = "resolved"
           loaded1 == isGoogleLoaded \/ resolvedNow
           eff == BridgeEffect(isGoogleLoaded, apiPresent, bridge, buttons)
           eff2 == IF loaded1 # isGoogleLoaded
                   THEN BridgeEffect(loaded1, apiPresent, eff.bridge, eff.buttons)
                   ELSE eff
       IN  /\ loads' = new
           /\ loadCalls' = i
           /\ scriptEl' = IF r.append THEN "loading" ELSE scriptEl
           /\ appended' = IF r.append THEN appended + 1 ELSE appended
           /\ isGoogleLoaded' = loaded1
           /\ bridge' = eff2.bridge
           /\ buttons' = eff2.buttons
    /\ UNCHANGED <<apiPresent, isOpen, loadNotes>>
    /\ UNCHANGED <<loginVars, envVars>>

\* the parent re-renders with a new onSuccess / onClose / callbackUrl:
\* handleGoogleCallback is rebuilt and the bridge effect runs again
CallbackChanged ==
    /\ bridge.initCalls < MaxInits
    /\ LET eff == BridgeEffect(isGoogleLoaded, apiPresent, bridge, buttons)
       IN  /\ bridge' = eff.bridge
           /\ buttons' = eff.buttons
    /\ UNCHANGED <<isOpen, isGoogleLoaded, loadNotes>>
    /\ UNCHANGED <<loginVars, loaderVars, envVars>>

\* the script's load event; the library may or may not have installed
\* window.google.accounts by then
ScriptLoads(apiNow) ==
    /\ scriptEl = "loading"
    /\ scriptEl' = "loaded"
    /\ apiPresent' = (apiPresent \/ apiNow)
    /\ LET new == [i \in Loads |-> OnLoadEvent(loads[i])]
       IN  /\ loads' = new
           /\ AfterLoads(loads, new, apiPresent')
    /\ UNCHANGED <<appended, loadCalls, isOpen>>
    /\ UNCHANGED <<loginVars, envVars>>

\* the script's error event
ScriptFails ==
    /\ scriptEl = "loading"
    /\ scriptEl' = "errored"
    /\ LET new == [i \in Loads |-> OnErrorEvent(loads[i])]
       IN  /\ loads' = new
           /\ AfterLoads(loads, new, apiPresent)
    /\ UNCHANGED <<appended, loadCalls, apiPresent, isOpen>>
    /\ UNCHANGED <<loginVars, envVars>>

\* the issuer's 100 ms timer fires
SettleTimer(i) ==
    /\ loads[i].state = "settling"
    /\ LET new == [loads EXCEPT ![i] = OnSettleTimer(loads[i], apiPresent)]
       IN  /\ loads' = new
           /\ AfterLoads(loads, new, apiPresent)
    /\ UNCHANGED <<scriptEl, appended, loadCalls, apiPresent, isOpen>>
    /\ UNCHANGED <<loginVars, envVars>>

\* the loaded library finishes its own initialisation
ApiAppears ==
    /\ scriptEl = "loaded" /\ ~apiPresent
    /\ apiPresent' = TRUE
    /\ UNCHANGED <<scriptEl, appended, loads, loadCalls>>
    /\ UNCHANGED <<loginVars, modalVars, envVars>>

\* ---------------------------------------------------------- specification
Init ==
    /\ auth = InitialAuth
    /\ cookies = EmptyJar
    /\ httpToken = Empty
    /\ protocol \in {"http:", "https:"}
    /\ attempts = [a \in Attempts |-> NewAttempt]
    /\ started = 0
    /\ publisher = 0
    /\ scriptEl = "absent"
    /\ appended = 0
    /\ apiPresent \in BOOLEAN
    /\ loads = [i \in Loads |-> NewLoad]
    /\ loadCalls = 0
    /\ clientId \in ClientIds
    /\ isOpen = FALSE
    /\ isGoogleLoaded = FALSE
    /\ bridge = NewBridge
    /\ buttons = 0
    /\ loadNotes = 0

\* The modal and the script loader, with no credential delivered.
NextLoader ==
    \/ OpenModal
    \/ CloseModal
    \/ TranslatorChanged
    \/ CallbackChanged
    \/ \E apiNow \in BOOLEAN : ScriptLoads(apiNow)
    \/ ScriptFails
    \/ \E i \in Loads : SettleTimer(i)
    \/ ApiAppears

\* The login attempts, from the state in which the modal is open and the
\* bridge is up.
NextLogin ==
    \/ \E cred \in Credentials : CredentialEvent(cred)
    \/ \E a \in Attempts, msg \in CollaboratorErrors : ExchangeThrows(a, msg)
    \/ \E a \in Attempts : \E result \in ExchangeResults(a) : ExchangeInvalid(a, result)
    \/ \E a \in Attempts : \E result \in ExchangeResults(a) : ExchangeValid(a, result)
    \/ \E a \in Attempts, msg \in CollaboratorErrors : ProfileThrows(a, msg)
    \/ \E a \in Attempts : ProfileEmpty(a)
    \/ \E a \in Attempts, userDetails \in Profiles, observer \in Observers :
          ProfileOk(a, userDetails, observer)
    \/ DayPasses

Next == NextLoader \/ NextLogin

\* The state OpenModal leaves when the identity library was already on the
\* page: the first call of loadGoogleOAuthScript resolved at once and the
\* bridge effect has initialised the bridge and rendered the button.
InitLogin ==
    /\ auth = InitialAuth
    /\ cookies = EmptyJar
    /\ httpToken = Empty
    /\ protocol \in {"http:", "https:"}
    /\ attempts = [a \in Attempts |-> NewAttempt]
    /\ started = 0
    /\ publisher = 0
    /\ scriptEl = "absent"
    /\ appended = 0
    /\ apiPresent = TRUE
    /\ loads = [i \in Loads |-> IF i = 1 THEN LoadExecutor(TRUE, "absent").load ELSE NewLoad]
    /\ loadCalls = 1
    /\ clientId = "client-id.apps.googleusercontent.com"
    /\ isOpen = TRUE
    /\ isGoogleLoaded = TRUE
    /\ bridge = BridgeEffect(TRUE, TRUE, NewBridge, 0).bridge
    /\ buttons = 1
    /\ loadNotes = 0

Spec       == Init /\ [][Next]_vars
SpecLoader == Init /\ [][NextLoader]_vars
SpecLogin  == InitLogin /\ [][NextLogin]_vars

\* The modal and the script loader, with credential events delivered to the
\* bridge's callback (the attempts they start stay suspended).
NextBridge == NextLoader \/ \E cred \in Credentials : CredentialEvent(cred)
SpecBridge == Init /\ [][NextBridge]_vars

\* InitLogin is a state of the whole program: TLC refutes this under Spec
InitLoginUnreachable == ~InitLogin

\* ================================================================ claims
Started == 1..started

\* ---------------------------------------------------------------------
\* C1: once every login attempt has finished, AuthState is the terminal
\* result of the most recently started attempt; a late completion of an
\* earlier attempt never overwrites what a later attempt published.
\* The code carries no sequence number: whichever attempt completes last
\* publishes last.
C1_LatestStartedAttemptWins ==
    (started >= 1 /\ \A a \in Started : Finished(a))
        => auth = attempts[started].result

\* ---------------------------------------------------------------------
\* C2: when an attempt whose exchange returned a non-empty access token
\* fails at the profile fetch (getMe throws or returns nothing), the step
\* that completes it sets status Failed and leaves the TokenStore as it
\* was: the access entry (and the refresh entry, if one was returned) is
\* still held, with the value this attempt wrote unless a later write of
\* an overlapping attempt replaced it.
ProfileFailureStep(a) ==
    /\ attempts[a].pc = "awaitProfile"
    /\ attempts'[a].pc = "done"
    /\ attempts'[a].profile \in {"threw", "empty"}

HoldsWrittenBy(jar, name, value, a) ==
    /\ ~IsNull(jar[name])
    /\ (jar[name][1].writer = a => jar[name][1].value = value)

C2_ProfileFailureKeepsTokens ==
    [][\A a \in Attempts : ProfileFailureStep(a) =>
          /\ auth'.status = "failed"
          /\ cookies' = cookies
          /\ attempts[a].data.accessToken # Empty
          /\ HoldsWrittenBy(cookies', "access_token", attempts[a].data.accessToken, a)
          /\ (attempts[a].data.refreshToken # Empty =>
                HoldsWrittenBy(cookies', "refresh_token", attempts[a].data.refreshToken, a))
      ]_vars

C2_Witness ==
    \E a \in Attempts :
        /\ Finished(a)
        /\ attempts[a].profile = "empty"
        /\ attempts[a].data.refreshToken # Empty
        /\ auth.status = "failed"
        /\ CookiesGet(cookies, "access_token") = attempts[a].data.accessToken
        /\ CookiesGet(cookies, "refresh_token") = attempts[a].data.refreshToken

\* ---------------------------------------------------------------------
\* C3: an attempt whose exchange throws, or returns a response with
\* result, result.data or result.data.accessToken missing or empty, never
\* writes the TokenStore and never issues a profile fetch; the step that
\* receives that outcome leaves both entries unchanged and ends the
\* attempt in Failed.
ExchangeFailed(att) ==
    \/ att.exchange = "threw"
    \/ /\ att.exchange = "returned"
       /\ LET result == att.response[1]
          IN  \/ ~result.present
              \/ ~result.hasData
              \/ result.data.accessToken = Empty

C3_ExchangeFailureWritesNothing ==
    /\ [](\A a \in Attempts : ExchangeFailed(attempts[a]) =>
            /\ attempts[a].pc = "done"
            /\ ~attempts[a].persisted
            /\ attempts[a].profileCalls = 0
            /\ \A n \in {"access_token", "refresh_token"} :
                  ~IsNull(cookies[n]) => cookies[n][1].writer # a
            /\ attempts[a].result.status = "failed")
    /\ [][\A a \in Attempts :
            (~ExchangeFailed(attempts[a]) /\ ExchangeFailed(attempts'[a])) =>
                /\ cookies' = cookies
                /\ httpToken' = httpToken
                /\ auth'.status = "failed"]_vars

C3_Witness ==
    \E a, b \in Attempts :
        /\ attempts[a].exchange = "returned"
        /\ attempts[a].response[1].hasData
        /\ ExchangeFailed(attempts[a])
        /\ attempts[b].exchange = "threw"
        /\ auth.status = "failed"

\* ---------------------------------------------------------------------
\* C4: an empty credential takes the controller directly to Failed with
\* the missing-credential reason, never through Authenticating, with no
\* call of the exchange or profile collaborator and no TokenStore write.
\* The code dispatches loginStart (line 54) before it tests the credential
\* (line 56).
C4_EmptyCredentialFailsDirectly ==
    \A a \in Started : attempts[a].credential = Empty =>
        /\ attempts[a].dispatched = <<"loginFailure">>
        /\ attempts[a].result.status = "failed"
        /\ attempts[a].result.error = MsgNoCredential
        /\ attempts[a].exchangeArgs = <<>>
        /\ attempts[a].profileCalls = 0
        /\ ~attempts[a].persisted

\* ---------------------------------------------------------------------
\* C5: in every state, status is Authenticated exactly when user is
\* non-null and the TokenStore holds an access token.
C5_AuthenticatedIffUserAndToken ==
    (auth.status = "authenticated")
        <=> (~IsNull(auth.user) /\ ~IsNull(cookies.access_token))

\* the two halves of C5, to tell its failures apart
C5_AuthenticatedHasToken ==
    auth.status = "authenticated" => ~IsNull(cookies.access_token)
C5_UserAndTokenIsAuthenticated ==
    (~IsNull(auth.user) /\ ~IsNull(cookies.access_token))
        => auth.status = "authenticated"

\* ---------------------------------------------------------------------
\* C6: an attempt issues its profile fetch only after it has written its
\* access token to the TokenStore and set it on the HTTP client: the
\* request goes out with that token readable from both, and an attempt
\* that persisted nothing has issued no profile fetch.
C6_PersistBeforeProfileFetch ==
    \A a \in Attempts :
        /\ attempts[a].profileCalls > 0 =>
              /\ attempts[a].persisted
              /\ attempts[a].data.accessToken # Empty
              /\ attempts[a].reqCookie = attempts[a].data.accessToken
              /\ attempts[a].reqToken = attempts[a].data.accessToken
        /\ ~attempts[a].persisted => attempts[a].profileCalls = 0

C6_Witness ==
    \E a, b \in Attempts :
        /\ a < b
        /\ attempts[a].pc = "awaitProfile"
        /\ attempts[b].pc = "awaitProfile"
        /\ attempts[a].reqToken # httpToken

\* ---------------------------------------------------------------------
\* C7: over any number of calls of loadGoogleOAuthScript, interleaved in
\* any way with the script's load and error events, at most one script
\* element is appended to the document.
C7_AtMostOneScriptAppended ==
    /\ appended <= 1
    /\ Cardinality({i \in Loads : loads[i].role = "issuer"}) = appended

C7_Witness ==
    /\ appended = 1
    /\ scriptEl = "errored"
    /\ \E i, j \in Loads : loads[i].role = "issuer" /\ loads[j].role = "attached"
    /\ loadCalls = MaxLoads

\* ---------------------------------------------------------------------
\* C8: all callers waiting on the same script load get the same outcome:
\* it never happens that the caller that issued the fetch rejects while a
\* caller attached to the in-flight load resolves, or the reverse.
\* (There is one script element per page, so every issuer or attached
\* caller waits on the same load.)
Settled(ld) == ld.state \in {"resolved", "rejected"}
WaitsOnScript(ld) == ld.role \in {"issuer", "attached"}

C8_WaitersShareOutcome ==
    \A i, j \in Loads :
        (WaitsOnScript(loads[i]) /\ WaitsOnScript(loads[j])
            /\ Settled(loads[i]) /\ Settled(loads[j]))
        => loads[i].state = loads[j].state

\* ---------------------------------------------------------------------
\* C9: after a call has failed with a ScriptLoadError the loader is back
\* to not-requested: a later call (made while the API is still absent)
\* issues a fresh fetch, so it can still succeed.
\* The code never removes the script element, so a later call finds it
\* and only adds listeners for events that have already fired.
C9_FailureResetsLoader ==
    \A i \in Loads :
        (loads[i].state = "rejected" /\ ~apiPresent)
            => LoadExecutor(apiPresent, scriptEl).append

\* ---------------------------------------------------------------------
\* C10: no call resolves while window.google.accounts is not observable.
\* (The API never goes away once present, so a call that resolved with
\* the API absent is seen in the state right after it resolved.)
\* A caller attached to the in-flight load resolves on the load event
\* itself, without the check the issuer makes after its timer.
C10_ResolvedOnlyWithApi ==
    \A i \in Loads : loads[i].state = "resolved" => apiPresent

\* ---------------------------------------------------------------------
\* C11: every failure of the session lifecycle - a script-load failure as
\* well as the failures inside a login attempt - leaves status Failed with
\* the failure message in AuthState.error and raises exactly one
\* notification.
\* initializeGoogleOAuth (lines 156-161) only raises the notification: it
\* dispatches nothing.
RejectedLoads == {i \in Loads : loads[i].state = "rejected"}

C11_EveryFailureRecordedAndNotified ==
    /\ loadNotes = Cardinality(RejectedLoads)
    /\ \A i \in RejectedLoads : auth.status = "failed" /\ auth.error = loads[i].error
    /\ \A a \in Started :
          (Finished(a) /\ attempts[a].result.status = "failed") =>
              attempts[a].errorNotes = <<attempts[a].result.error>>

BridgeInvoked ==
    \/ bridge'.initCalls # bridge.initCalls
    \/ bridge'.renderCalls # bridge.renderCalls

C13_BridgeOnlyWhenReady ==
    /\ [][BridgeInvoked =>
            /\ apiPresent'
            /\ \E i \in Loads : loads'[i].state = "resolved"]_vars
    /\ []((bridge.initialized \/ buttons > 0 \/ bridge.initCalls > 0) =>
            /\ apiPresent
            /\ \E i \in Loads : loads[i].state = "resolved")

C13_Witness ==
    /\ bridge.initCalls = MaxInits
    /\ \E i, j \in Loads : loads[i].state = "rejected" /\ loads[j].state = "resolved"

\* ---------------------------------------------------------------------
\* C14: after any number of renderButton invocations the mount target
\* holds exactly one rendered button.
C14_OneButtonInTarget ==
    /\ bridge.renderCalls >= 1 => buttons = 1
    /\ bridge.renderCalls = 0 => buttons = 0

C14_Witness ==
    /\ bridge.renderCalls >= 2
    /\ buttons = 1
    /\ ~isOpen

\* ---------------------------------------------------------------------
\* C15: a single login attempt with a non-empty credential, an exchange
\* returning access token A and refresh token R and a profile fetch
\* returning P ends with AuthState Authenticated, error null, user equal
\* to P's id, email, username, confirmed and role (role_id is P's role for
\* every role value, undefined only when P has none), and with A and R in
\* the TokenStore.
\* Line 101 computes role_id as userDetails.role || undefined, which drops
\* the role 0.
SingleSuccessStep ==
    /\ started = 1
    /\ attempts[1].pc = "awaitProfile"
    /\ attempts[1].data.refreshToken # Empty
    /\ attempts'[1].profile = "returned"
    /\ attempts'[1].dispatched = <<"loginStart", "loginSuccess">>

C15_SingleSuccessPublishesProfile ==
    [][SingleSuccessStep =>
          LET P == attempts'[1].details[1]
          IN  /\ auth' = [status |-> "authenticated",
                          error  |-> NoError,
                          user   |-> Some([id        |-> P.id,
                                           email     |-> P.email,
                                           username  |-> P.username,
                                           confirmed |-> P.confirmed,
                                           role_id   |-> P.role])]
              /\ CookiesGet(cookies', "access_token") = attempts[1].data.accessToken
              /\ CookiesGet(cookies', "refresh_token") = attempts[1].data.refreshToken
      ]_vars

\* ---------------------------------------------------------------------
\* C16: every write to the TokenStore uses the fixed policy: access entry
\* with 1 day, refresh entry with 7 days, both with path "/", sameSite Lax
\* and secure exactly when the page is served over https.
CookieNames == {"access_token", "refresh_token"}

PolicyEntry(value, days, who) ==
    Some([value |-> value, expires |-> days, path |-> "/", sameSite |-> "Lax",
          secure |-> (protocol = "https:"), writer |-> who])

PersistStep(a) == ~attempts[a].persisted /\ attempts'[a].persisted

C16_WritesFollowPolicy ==
    /\ [][\A a \in Attempts : PersistStep(a) =>
            LET data == attempts'[a].data
            IN  /\ cookies'.access_token = PolicyEntry(data.accessToken, 1, a)
                /\ IF data.refreshToken # Empty
                   THEN cookies'.refresh_token = PolicyEntry(data.refreshToken, 7, a)
                   ELSE cookies'.refresh_token = cookies.refresh_token]_vars
    /\ [][(\A a \in Attempts : ~PersistStep(a)) =>
            \A n \in CookieNames :
                \/ cookies'[n] = cookies[n]
                \/ IsNull(cookies'[n])
                \/ /\ ~IsNull(cookies[n])
                   /\ cookies'[n] = Some([cookies[n][1] EXCEPT !.expires = @ - 1])]_vars
    /\ [](\A n \in CookieNames : ~IsNull(cookies[n]) =>
            /\ cookies[n][1].path = "/"
            /\ cookies[n][1].sameSite = "Lax"
            /\ cookies[n][1].secure = (protocol = "https:")
            /\ cookies[n][1].expires >= 1
            /\ cookies[n][1].expires <= (IF n = "access_token" THEN 1 ELSE 7))

C16_Witness ==
    /\ protocol = "https:"
    /\ ~IsNull(cookies.access_token) /\ cookies.access_token[1].secure
    /\ ~IsNull(cookies.refresh_token) /\ cookies.refresh_token[1].expires = 7
    /\ cookies.access_token[1].writer # cookies.refresh_token[1].writer

\* ---------------------------------------------------------------------
\* C17 (as claimed): the TokenStore never holds a refresh token without an
\* access token, also after entries expire under their 1-day and 7-day
\* lifetimes.
C17_RefreshImpliesAccess ==
    ~IsNull(cookies.refresh_token) => ~IsNull(cookies.access_token)

\* C17 (amended): the refresh entry is always written together with the
\* access entry, so the store holds a refresh token without an access
\* token only after at least one day has elapsed since the refresh entry
\* was written (the access entry's 1-day lifetime is over, the refresh
\* entry's 7-day lifetime is not).
C17_RefreshAloneOnlyAfterExpiry ==
    /\ [][\A a \in Attempts : PersistStep(a) =>
            /\ ~IsNull(cookies'.access_token)
            /\ cookies'.access_token[1].writer = a]_vars
    /\ []((~IsNull(cookies.refresh_token) /\ IsNull(cookies.access_token))
            => cookies.refresh_token[1].expires < RefreshExpiryDays)
    /\ []((~IsNull(cookies.refresh_token)
             /\ cookies.refresh_token[1].expires = RefreshExpiryDays)
            => ~IsNull(cookies.access_token))

C17_Witness ==
    /\ ~IsNull(cookies.refresh_token)
    /\ IsNull(cookies.access_token)
    /\ cookies.refresh_token[1].expires = RefreshExpiryDays - 1

StartStep(a) == attempts[a].pc = "unused" /\ attempts'[a].pc # "unused"

C19_RetryAfterFailure ==
    /\ [][\A a \in Attempts :
            (StartStep(a) /\ auth.status = "failed" /\ attempts'[a].credential # Empty) =>
                /\ auth'.status = "authenticating"
                /\ auth'.error = NoError
                /\ attempts'[a].pc = "awaitExchange"]_vars
    /\ [][\A a \in Attempts :
            (attempts[a].pc = "awaitProfile" /\ attempts'[a].profile = "returned") =>
                /\ \E k \in 1..Len(attempts'[a].dispatched) :
                      attempts'[a].dispatched[k] = "loginSuccess"
                /\ attempts'[a].dispatched[Len(attempts'[a].dispatched)] = "loginSuccess"
                      => (auth'.status = "authenticated" /\ ~IsNull(auth'.user))]_vars
    /\ []((auth.status = "failed" /\ started < MaxAttempts /\ isOpen) =>
            ENABLED CredentialEvent(CredOf(EventsSoFar + 1)))

C19_Witness ==
    /\ started = 2
    /\ attempts[1].credential = Empty
    /\ attempts[2].result.status = "authenticated"
    /\ auth.status = "authenticated"

\* ---------------------------------------------------------------------
\* C20: a call of loadGoogleOAuthScript made while window.google.accounts
\* is present resolves without appending a script element, whatever the
\* state of an earlier load.
LoadCallStep(i) == loads[i].state = "unused" /\ loads'[i].state # "unused"

C20_ApiPresentResolvesAtOnce ==
    [][\A i \in Loads : (LoadCallStep(i) /\ apiPresent) =>
          /\ loads'[i].state = "resolved"
          /\ appended' = appended
          /\ scriptEl' = scriptEl]_vars

C20_Witness ==
    \E i, j \in Loads :
        /\ loads[i].role = "immediate"
        /\ loads[j].state = "rejected"
        /\ scriptEl = "loaded"

\* ---------------------------------------------------------------------
\* C21: each credential delivered to the callback is passed to the
\* exchange exactly once when it is non-empty (not at all when it is
\* empty, never twice, no retry after a failure), no two invocations pass
\* the same credential, and no credential is stored in the TokenStore, on
\* the HTTP client, or in AuthState.
AuthMessages ==
    {NoError, MsgNoCredential, MsgNoUserDetails, MsgInvalidResp, MsgObserver}
        \cup CollaboratorErrors

C21_CredentialUsedOnceNeverStored ==
    /\ \A a \in Attempts : attempts[a].pc # "unused" =>
          attempts[a].exchangeArgs =
              IF attempts[a].credential = Empty THEN <<>>
              ELSE <<attempts[a].credential>>
    /\ \A a, b \in Attempts :
          (a # b /\ attempts[a].pc # "unused" /\ attempts[b].pc # "unused"
                 /\ attempts[a].credential # Empty)
              => attempts[a].credential # attempts[b].credential
    /\ \A cred \in Credentials \ {Empty} :
          /\ CookiesGet(cookies, "access_token") # cred
          /\ CookiesGet(cookies, "refresh_token") # cred
          /\ httpToken # cred
    /\ auth.error \in AuthMessages
    /\ \/ IsNull(auth.user)
       \/ \E p \in Profiles : auth.user = Some(SuccessPayload(p).user)

C21_Witness ==
    /\ started = 2
    /\ attempts[1].exchange = "threw" /\ Finished(1)
    /\ attempts[1].exchangeArgs = <<CredOf(1)>>
    /\ attempts[2].exchangeArgs = <<CredOf(2)>>
    /\ Finished(2) /\ attempts[2].persisted
    /\ auth.status = "authenticated"


\* ---------------------------------------------------------------------
\* C22: an attempt that fails at the profile fetch (getMe throws or returns
\* nothing) leaves AuthState.error "Failed to fetch user details"; one that
\* fails at the exchange leaves the exchange collaborator's message; so the
\* error of a profile failure is never that of an exchange failure.
\* The catch block of lines 126-131 publishes whatever getMe threw.
FailedAtProfile(a)  == Finished(a) /\ attempts[a].profile \in {"threw", "empty"}
FailedAtExchange(a) == Finished(a) /\ attempts[a].exchange = "threw"

C22_ProfileFailureHasOwnReason ==
    /\ \A a \in Attempts : FailedAtProfile(a) =>
          attempts[a].result.error = MsgNoUserDetails
    /\ \A a \in Attempts : FailedAtExchange(a) =>
          attempts[a].result.error \in CollaboratorErrors
    /\ \A a, b \in Attempts : (FailedAtProfile(a) /\ FailedAtExchange(b)) =>
          attempts[a].result.error # attempts[b].result.error


\* ---------------------------------------------------------------------
\* C23: onSuccess is called at most once per attempt, only by an attempt
\* that has dispatched loginSuccess, and never by an attempt that ends in
\* Failed.
\* onSuccess is called inside the try block (lines 109-111): when it throws,
\* the attempt that notified it ends with loginFailure.
LastDispatch(a) == attempts[a].dispatched[Len(attempts[a].dispatched)]

C23_ObserverOnlyForSuccessfulAttempt ==
    \A a \in Attempts : Finished(a) =>
        /\ attempts[a].observerCalls <= 1
        /\ attempts[a].observerCalls = 1 =>
              \E k \in 1..Len(attempts[a].dispatched) :
                  attempts[a].dispatched[k] = "loginSuccess"
        /\ LastDispatch(a) = "loginFailure" => attempts[a].observerCalls = 0

\* ---------------------------------------------------------------------
\* C24: a finished attempt has dispatched loginStart and then exactly one
\* of loginSuccess and loginFailure; loginSuccess is never followed by
\* loginFailure.
\* The catch block also receives what is thrown after line 104.
C24_OneTerminalDispatch ==
    \A a \in Attempts : Finished(a) =>
        attempts[a].dispatched \in {<<"loginStart", "loginSuccess">>,
                                    <<"loginStart", "loginFailure">>}


\* ---------------------------------------------------------------------
\* C25: once the script's load or error event has occurred, no call of
\* loadGoogleOAuthScript is left waiting for it: every call made so far,
\* and every call made afterwards, is settled or is the issuer inside its
\* settle delay.
\* A caller that finds the element after its event has fired (lines 52-57)
\* adds listeners for events that do not occur again.
ScriptEventOccurred == scriptEl \in {"loaded", "errored"}

C25_NoCallWaitsForPastEvent ==
    ScriptEventOccurred => \A i \in Loads : loads[i].state # "pending"


\* ---------------------------------------------------------------------
\* C26: the access entry and the refresh entry held in the TokenStore were
\* written from the same exchange response.
\* Lines 74-82 leave the refresh entry of an earlier exchange in place when
\* the response carries no refresh token.
C26_TokensFromSameExchange ==
    (~IsNull(cookies.access_token) /\ ~IsNull(cookies.refresh_token)) =>
        /\ cookies.access_token[1].writer = cookies.refresh_token[1].writer
        /\ cookies.refresh_token[1].value =
              attempts[cookies.access_token[1].writer].data.refreshToken

\* ---------------------------------------------------------------------
\* C27: when every started attempt has finished and AuthState is
\* Authenticated, the published user was fetched with the access token
\* the TokenStore holds: the attempt that published the user is the one
\* that wrote the access entry.
\* Each attempt writes the store before its profile fetch and publishes
\* after it, so two overlapping attempts can finish in the other order.
AllFinished == started >= 1 /\ \A a \in Started : Finished(a)

C27_UserAndTokensFromSameAttempt ==
    (AllFinished /\ auth.status = "authenticated" /\ ~IsNull(cookies.access_token)) =>
        /\ cookies.access_token[1].writer = publisher
        /\ attempts[publisher].reqToken = CookiesGet(cookies, "access_token")

\* ---------------------------------------------------------------------
\* C28: the profile fetch of an attempt is issued with the access token of
\* that attempt's own exchange response, on the HTTP client and in the
\* TokenStore, whatever other attempts are in flight.
C28_ProfileFetchUsesOwnToken ==
    \A a \in Attempts : attempts[a].profileCalls >= 1 =>
        /\ attempts[a].profileCalls = 1
        /\ ~IsNull(attempts[a].response)
        /\ attempts[a].reqToken = attempts[a].response[1].data.accessToken
        /\ attempts[a].reqCookie = attempts[a].response[1].data.accessToken
        /\ attempts[a].reqToken # Empty

C28_Witness ==
    /\ attempts[1].pc = "awaitProfile" /\ attempts[2].pc = "awaitProfile"
    /\ attempts[1].reqToken = AccessOf(1)
    /\ attempts[2].reqToken = AccessOf(2)
    /\ \E a \in Attempts : httpToken # attempts[a].reqToken
    /\ httpToken = CookiesGet(cookies, "access_token")

\* ---------------------------------------------------------------------
\* C29: with an empty or placeholder client ID, however often the modal
\* is opened, no script is fetched, loadGoogleOAuthScript is not called,
\* the bridge is never initialised, no button is rendered, no credential
\* event can be delivered, and AuthState stays as it was.
C29_InvalidClientIdDoesNothing ==
    clientId \in {"", "your_google_client_id_here"} =>
        /\ loadCalls = 0 /\ appended = 0 /\ scriptEl = "absent"
        /\ ~isGoogleLoaded
        /\ bridge = NewBridge
        /\ buttons = 0
        /\ loadNotes = 0
        /\ started = 0
        /\ auth = InitialAuth
        /\ \A cred \in Credentials : ~ENABLED CredentialEvent(cred)

C29_Witness ==
    /\ clientId = "your_google_client_id_here"
    /\ isOpen
    /\ apiPresent
    /\ loadCalls = 0 /\ ~bridge.initialized

====
